---- MODULE Spec2Model ----
(***************************************************************************)
(* State-machine model of the token lottery program                        *)
(* (programs/anchor/src): the TokenLottery account, the instruction        *)
(* handlers initialize_config, initialize_lottery, buy_ticket,             *)
(* commit_a_winner, choose_a_winner and claim_prize, and the collaborators *)
(* they call (system program transfers, ticket mints and metadata, the     *)
(* randomness oracle, the slot clock).                                     *)
(*                                                                         *)
(* Every instruction is one transaction: a handler that returns Err or     *)
(* panics leaves every account as it was (the runtime rolls back), and the *)
(* a failed transaction leaves no trace: it is a stuttering step.  `last`  *)
(* describes the step just taken when it was a successful instruction.     *)
(* Rent of the ticket accounts and transaction fees are not charged.       *)
(***************************************************************************)
EXTENDS Integers, Sequences, FiniteSets, TLC

\* ---------------------------------------------------------------- bounds
MaxSlot == 4            \* the clock runs over slots 1..MaxSlot
MaxTickets == 3         \* at most this many tickets are sold
InitialLamports == 6    \* balance of every player at the start

\* ---------------------------------------------------------------- inputs
Players == {"alice", "bob"}
StartSlots == {2}
EndSlots == {2, 3}
Prices == {2}
RandomnessKeys == {1}
\* 32-byte oracle values, shortened to their two lowest bytes
RevealedValues == {<<1, 0>>, <<2, 1>>}

\* -------------------------------------------------------------- constants
DefaultKey == 0                      \* Pubkey::default()
RentExempt == 1                      \* rent-exempt minimum of the TokenLottery account
NAME == <<"T", "k">>                 \* constants::NAME, base name of the tickets
MAX_NAME_LENGTH == 32                \* length the metadata program pads names to
CollectionMint == "collection_mint"  \* PDA of seeds [b"collection_mint"]
ForeignMint == 0 - 1                 \* key of a mint that is not a PDA of this program
NoPlayer == "-"
Nul == "nul"                         \* the character \u{0}

VARIABLES
    slot,            \* Clock::get()?.slot
    created,         \* PDAs of the program that are initialized
    token_lottery,   \* the TokenLottery account (state.rs)
    lamports,        \* lamports of the players and of the TokenLottery account
    tickets,         \* ticket mints in the order of issue, with metadata and token accounts
    oracle,          \* the randomness accounts of the oracle
    first_claim,     \* history: lamports moved by the first successful claim_prize, -1 before it
    paid_out,        \* history: lamports moved by all successful claim_prize so far
    last             \* the step just taken, when it was a successful instruction

vars == <<slot, created, token_lottery, lamports, tickets, oracle, first_claim, paid_out, last>>

\* ------------------------------------------------------------ pure helpers
Digit(d) == CASE d = 0 -> "0" [] d = 1 -> "1" [] d = 2 -> "2" [] d = 3 -> "3"
              [] d = 4 -> "4" [] d = 5 -> "5" [] d = 6 -> "6" [] d = 7 -> "7"
              [] d = 8 -> "8" [] d = 9 -> "9"

RECURSIVE to_string(_)
\* u64::to_string: decimal digits, most significant first
to_string(n) == IF n < 10 THEN <<Digit(n)>> ELSE to_string(n \div 10) \o <<Digit(n % 10)>>

\* NAME.to_owned() + &n.to_string()
TicketName(n) == NAME \o to_string(n)

\* the metadata program stores a name padded with \u{0} up to MAX_NAME_LENGTH
Puff(name) == name \o [i \in 1..(MAX_NAME_LENGTH - Len(name)) |-> Nul]

\* metadata.name.replace("\u{0}", "")
StripNul(s) == SelectSeq(s, LAMBDA c : c # Nul)

\* ---------------------------------------------------------------- accounts
TL == "token_lottery"

\* a zeroed TokenLottery account, as `init` allocates it
ZeroLottery ==
    [winner |-> 0, winner_chosen |-> FALSE, lottery_start |-> 0, lottery_end |-> 0,
     lottery_pot_amount |-> 0, ticket_num |-> 0, price |-> 0,
     randomness_account |-> DefaultKey, authority |-> NoPlayer]

\* a randomness account nobody has created yet
NoRandomness == [exists |-> FALSE, seed_slot |-> 0, revealed |-> FALSE, value |-> <<0, 0>>]

\* a token somebody minted outside the program: it copies the name of ticket 0
\* and names this collection, which the collection authority never verified
ForeignTicket ==
    [seed |-> ForeignMint, name |-> Puff(TicketName(0)),
     collection |-> [verified |-> FALSE, key |-> CollectionMint],
     holder |-> "bob"]

MintKeys == {tickets[i].seed : i \in 1..Len(tickets)} \cup {ForeignMint}

\* the mint and metadata stored under mint key k, and who holds its one token
MintAt(k) ==
    IF k = ForeignMint THEN ForeignTicket
    ELSE tickets[CHOOSE i \in 1..Len(tickets) : tickets[i].seed = k]

\* destination.amount of the associated token account of player p for mint k
TokenAmount(k, p) == IF MintAt(k).holder = p THEN 1 ELSE 0

\* what `last` records of a successful instruction: its signer, the key it was
\* given and the lamports it moved
Done(op, payer, key, amount) == [op |-> op, payer |-> payer, key |-> key, amount |-> amount]

\* `last` after a step of the clock, the oracle or a ticket holder
Idle == Done("none", NoPlayer, 0, 0)

Init ==
    /\ slot = 1
    /\ created = {}
    /\ token_lottery = ZeroLottery
    /\ lamports = [a \in Players \cup {TL} |-> IF a = TL THEN 0 ELSE InitialLamports]
    /\ tickets = <<>>
    /\ oracle = [k \in RandomnessKeys |-> NoRandomness]
    /\ first_claim = 0 - 1
    /\ paid_out = 0
    /\ last = Idle

\* ------------------------------------------------------------------ clock
Tick ==
    /\ slot < MaxSlot
    /\ slot' = slot + 1
    /\ last' = Idle
    /\ UNCHANGED <<created, token_lottery, lamports, tickets, oracle, first_claim, paid_out>>

\* ------------------------------------------------------- initialize_config
\* the fields process_initialize_config assigns; the others keep the zero of `init`
ConfiguredLottery(payer, start, end, price) ==
    [ZeroLottery EXCEPT !.lottery_start = start, !.lottery_end = end, !.price = price,
                        !.authority = payer, !.randomness_account = DefaultKey,
                        !.ticket_num = 0, !.winner_chosen = FALSE]

\* variant: an existing session can be configured again (init_if_needed)
InitializeConfigAgainResult(payer) ==
    IF lamports[payer] < RentExempt THEN "InsufficientFunds" ELSE "Ok"

InitializeConfigResult(payer) ==
    IF TL \in created THEN "AccountAlreadyInUse"
    ELSE IF lamports[payer] < RentExempt THEN "InsufficientFunds"
    ELSE "Ok"

InitializeConfig(payer, start, end, price) ==
    LET res == InitializeConfigResult(payer) IN
    /\ IF res = "Ok"
       THEN /\ last' = Done("initialize_config", payer, 0, 0)
            /\ created' = created \cup {TL}
            /\ token_lottery' = ConfiguredLottery(payer, start, end, price)
            /\ lamports' = [lamports EXCEPT ![payer] = @ - RentExempt, ![TL] = @ + RentExempt]
       ELSE UNCHANGED <<created, token_lottery, lamports, last>>
    /\ UNCHANGED <<slot, tickets, oracle, first_claim, paid_out>>

\* ------------------------------------------------------ initialize_lottery
InitializeLotteryResult == IF CollectionMint \in created THEN "AccountAlreadyInUse" ELSE "Ok"

InitializeLottery(payer) ==
    LET res == InitializeLotteryResult IN
    /\ IF res = "Ok"
       THEN /\ last' = Done("initialize_lottery", payer, 0, 0)
            /\ created' = created \cup {CollectionMint}
       ELSE UNCHANGED <<created, last>>
    /\ UNCHANGED <<slot, token_lottery, lamports, tickets, oracle, first_claim, paid_out>>

\* ------------------------------------------------------------- buy_ticket
\* variant: the closing slot is excluded from the sale
lottery_not_open_at_end(clock_slot, tl) ==
    clock_slot < tl.lottery_start \/ clock_slot >= tl.lottery_end

\* the sale-window test of process_buy_ticket: TRUE when the purchase is refused
lottery_not_open(clock_slot, tl) ==
    clock_slot < tl.lottery_start \/ clock_slot > tl.lottery_end

\* variant: the pot counts tickets instead of lamports
AfterPaymentOfOne(tl) == [tl EXCEPT !.lottery_pot_amount = @ + 1]

\* variant: the counter is credited twice for one transfer
AfterPaymentTwice(tl) == [tl EXCEPT !.lottery_pot_amount = @ + 2 * tl.price]

\* lottery_pot_amount += price
AfterPayment(tl) == [tl EXCEPT !.lottery_pot_amount = @ + tl.price]

\* variant: the counter is advanced twice
AfterIssueTwice(tl) == [tl EXCEPT !.ticket_num = @ + 2]

\* ticket_num += 1
AfterIssue(tl) == [tl EXCEPT !.ticket_num = @ + 1]

\* the mint of seeds [ticket_num], its metadata after create_metadata_accounts_v3
\* and set_and_verify_sized_collection_item, and the payer's token account after mint_to
IssuedTicket(tl, payer) ==
    [seed |-> tl.ticket_num, name |-> Puff(TicketName(tl.ticket_num)),
     collection |-> [verified |-> TRUE, key |-> CollectionMint],
     holder |-> payer]

\* cpi is the outcome of the issuance calls (mint_to .. set_and_verify_sized_collection_item)
BuyTicketResult(payer, cpi) ==
    IF TL \notin created \/ CollectionMint \notin created THEN "AccountNotInitialized"
    ELSE IF token_lottery.ticket_num \in MintKeys THEN "AccountAlreadyInUse"
    ELSE IF lottery_not_open(slot, token_lottery) THEN "LotteryNotOpen"
    ELSE IF lamports[payer] < token_lottery.price THEN "InsufficientFunds"
    ELSE cpi

\* variant: a purchase whose issuance fails keeps the payment
BuyTicketKeepingPayment(payer, cpi) ==
    LET res == BuyTicketResult(payer, cpi) IN
    /\ res = "Ok" => Len(tickets) < MaxTickets
    /\ IF res = "Ok"
       THEN /\ last' = Done("buy_ticket", payer, token_lottery.ticket_num, token_lottery.price)
            /\ lamports' = [lamports EXCEPT ![payer] = @ - token_lottery.price,
                                            ![TL] = @ + token_lottery.price]
            /\ tickets' = Append(tickets, IssuedTicket(token_lottery, payer))
            /\ token_lottery' = AfterIssue(AfterPayment(token_lottery))
       ELSE IF res = "IssuanceFailed"
       THEN /\ lamports' = [lamports EXCEPT ![payer] = @ - token_lottery.price,
                                            ![TL] = @ + token_lottery.price]
            /\ token_lottery' = AfterPayment(token_lottery)
            /\ UNCHANGED <<tickets, last>>
       ELSE UNCHANGED <<lamports, tickets, token_lottery, last>>
    /\ UNCHANGED <<slot, created, oracle, first_claim, paid_out>>

BuyTicket(payer, cpi) ==
    LET res == BuyTicketResult(payer, cpi) IN
    /\ res = "Ok" => Len(tickets) < MaxTickets
    /\ IF res = "Ok"
       THEN /\ last' = Done("buy_ticket", payer, token_lottery.ticket_num, token_lottery.price)
            /\ lamports' = [lamports EXCEPT ![payer] = @ - token_lottery.price,
                                            ![TL] = @ + token_lottery.price]
            /\ tickets' = Append(tickets, IssuedTicket(token_lottery, payer))
            /\ token_lottery' = AfterIssue(AfterPayment(token_lottery))
       ELSE UNCHANGED <<lamports, tickets, token_lottery, last>>
    /\ UNCHANGED <<slot, created, oracle, first_claim, paid_out>>

\* the holder moves a ticket to another player's associated token account.
\* No instruction reads a holder but claim_prize, which reads the holder of the
\* winning ticket after the draw; a transfer commutes with every other step, so
\* only the transfers of the winning ticket after the draw are taken.
TransferTicket(i, to) ==
    /\ tickets[i].holder # to
    /\ token_lottery.winner_chosen /\ tickets[i].seed = token_lottery.winner
    /\ tickets' = [tickets EXCEPT ![i].holder = to]
    /\ last' = Idle
    /\ UNCHANGED <<slot, created, token_lottery, lamports, oracle, first_claim, paid_out>>

\* ----------------------------------------------------------------- oracle
\* a randomness account is created and committed at the current slot
\* (the keys are interchangeable: they are taken in order)
OracleCommit(k) ==
    /\ ~oracle[k].exists
    /\ \A j \in RandomnessKeys : j < k => oracle[j].exists
    /\ oracle' = [oracle EXCEPT ![k] = [NoRandomness EXCEPT !.exists = TRUE, !.seed_slot = slot]]
    /\ last' = Idle
    /\ UNCHANGED <<slot, created, token_lottery, lamports, tickets, first_claim, paid_out>>

\* the oracle reveals the value of a commitment made at an earlier slot
OracleReveal(k, v) ==
    /\ oracle[k].exists /\ ~oracle[k].revealed /\ slot > oracle[k].seed_slot
    /\ oracle' = [oracle EXCEPT ![k].revealed = TRUE, ![k].value = v]
    /\ last' = Idle
    /\ UNCHANGED <<slot, created, token_lottery, lamports, tickets, first_claim, paid_out>>

\* RandomnessAccountData::parse(..) succeeds on a randomness account only
Parses(key) == key \in DOMAIN oracle /\ oracle[key].exists

\* variant: the value is taken whether or not the oracle has revealed it
ResolvedOrNot(key) == TRUE

\* randomness_data.get_value(&clock) is Ok once the commitment is resolved
Resolved(key) == oracle[key].revealed

\* -------------------------------------------------------- commit_a_winner
\* variant: no commitment is ever taken as fresh
already_revealed_whenever(seed_slot, clock_slot) == TRUE

\* variant: a commitment of the current slot is taken as fresh too
already_revealed_before(seed_slot, clock_slot) ==
    seed_slot # clock_slot - 1 /\ seed_slot # clock_slot

\* the freshness test of process_commit_a_winner: TRUE when the commitment is refused
already_revealed(seed_slot, clock_slot) == seed_slot # clock_slot - 1

\* variant: any signer may bind the session (no NotAuthorized test)
CommitWinnerByAnyoneResult(payer, key) ==
    IF TL \notin created THEN "AccountNotInitialized"
    ELSE IF ~Parses(key) THEN "Panic"
    ELSE IF already_revealed(oracle[key].seed_slot, slot) THEN "RandomnessAlreadyRevealed"
    ELSE "Ok"

CommitWinnerResult(payer, key) ==
    IF TL \notin created THEN "AccountNotInitialized"
    ELSE IF payer # token_lottery.authority THEN "NotAuthorized"
    ELSE IF ~Parses(key) THEN "Panic"
    ELSE IF already_revealed(oracle[key].seed_slot, slot) THEN "RandomnessAlreadyRevealed"
    ELSE "Ok"

\* variant: the first binding sticks, a later commitment is not stored
AfterCommitKeepingFirst(tl, key) ==
    IF tl.randomness_account = DefaultKey THEN [tl EXCEPT !.randomness_account = key] ELSE tl

\* token_lottery.randomness_account = randomness_account_data.key()
AfterCommit(tl, key) == [tl EXCEPT !.randomness_account = key]

CommitWinner(payer, key) ==
    LET res == CommitWinnerResult(payer, key) IN
    /\ IF res = "Ok"
       THEN /\ last' = Done("commit_a_winner", payer, key, 0)
            /\ token_lottery' = AfterCommit(token_lottery, key)
       ELSE UNCHANGED <<token_lottery, last>>
    /\ UNCHANGED <<slot, created, lamports, tickets, oracle, first_claim, paid_out>>

\* -------------------------------------------------------- choose_a_winner
\* variant: the modulus is off by one
randomness_result_off_by_one(value, ticket_num) == value[1] % (ticket_num + 1)

\* revealed_random_value[0] as u64 % ticket_num
randomness_result(value, ticket_num) == value[1] % ticket_num

\* variant: the draw can be repeated (no WinnerChosen test)
ChooseWinnerAgainResult(payer, key) ==
    IF TL \notin created THEN "AccountNotInitialized"
    ELSE IF key # token_lottery.randomness_account THEN "IncorrectRandomnessAccount"
    ELSE IF payer # token_lottery.authority THEN "NotAuthorized"
    ELSE IF slot < token_lottery.lottery_end THEN "LotteryNotCompleted"
    ELSE IF ~Parses(key) THEN "Panic"
    ELSE IF ~Resolved(key) THEN "RandomnessNotResolved"
    ELSE IF token_lottery.ticket_num = 0 THEN "Panic"
    ELSE "Ok"

\* variant: the draw is not held back until the sale has ended (no LotteryNotCompleted test)
ChooseWinnerEarlyResult(payer, key) ==
    IF TL \notin created THEN "AccountNotInitialized"
    ELSE IF key # token_lottery.randomness_account THEN "IncorrectRandomnessAccount"
    ELSE IF payer # token_lottery.authority THEN "NotAuthorized"
    ELSE IF token_lottery.winner_chosen THEN "WinnerChosen"
    ELSE IF ~Parses(key) THEN "Panic"
    ELSE IF ~Resolved(key) THEN "RandomnessNotResolved"
    ELSE IF token_lottery.ticket_num = 0 THEN "Panic"
    ELSE "Ok"

ChooseWinnerResult(payer, key) ==
    IF TL \notin created THEN "AccountNotInitialized"
    ELSE IF key # token_lottery.randomness_account THEN "IncorrectRandomnessAccount"
    ELSE IF payer # token_lottery.authority THEN "NotAuthorized"
    ELSE IF slot < token_lottery.lottery_end THEN "LotteryNotCompleted"
    ELSE IF token_lottery.winner_chosen THEN "WinnerChosen"
    ELSE IF ~Parses(key) THEN "Panic"
    ELSE IF ~Resolved(key) THEN "RandomnessNotResolved"
    ELSE IF token_lottery.ticket_num = 0 THEN "Panic"
    ELSE "Ok"

AfterChoice(tl, value) ==
    [tl EXCEPT !.winner = randomness_result(value, tl.ticket_num), !.winner_chosen = TRUE]

\* variant: a remainder by zero tickets yields 0 instead of a panic
ChooseWinnerOfNoTickets(payer, key) ==
    LET res == ChooseWinnerResult(payer, key) IN
    /\ IF res = "Ok"
       THEN /\ last' = Done("choose_a_winner", payer, key, 0)
            /\ token_lottery' = AfterChoice(token_lottery, oracle[key].value)
       ELSE IF res = "Panic" /\ Parses(key) /\ Resolved(key)
       THEN /\ last' = Done("choose_a_winner", payer, key, 0)
            /\ token_lottery' = [token_lottery EXCEPT !.winner = 0, !.winner_chosen = TRUE]
       ELSE UNCHANGED <<token_lottery, last>>
    /\ UNCHANGED <<slot, created, lamports, tickets, oracle, first_claim, paid_out>>

ChooseWinner(payer, key) ==
    LET res == ChooseWinnerResult(payer, key) IN
    /\ IF res = "Ok"
       THEN /\ last' = Done("choose_a_winner", payer, key, 0)
            /\ token_lottery' = AfterChoice(token_lottery, oracle[key].value)
       ELSE UNCHANGED <<token_lottery, last>>
    /\ UNCHANGED <<slot, created, lamports, tickets, oracle, first_claim, paid_out>>

\* ------------------------------------------------------------ claim_prize
\* the account constraints of ClaimPrize for the presented mint and the payer;
\* ata: the payer's associated token account for the mint exists (the holder's does)
ClaimAccountsResult(payer, mint, ata) ==
    IF TL \notin created \/ CollectionMint \notin created THEN "AccountNotInitialized"
    ELSE IF mint \notin MintKeys THEN "AccountNotInitialized"
    ELSE IF mint # token_lottery.winner THEN "ConstraintSeeds"
    ELSE IF ~(ata \/ MintAt(mint).holder = payer) THEN "AccountNotInitialized"
    ELSE "Ok"

\* variant: the balance of the claimant's token account is not tested
ClaimChecksWithoutBalance(payer, mint) ==
    IF ~token_lottery.winner_chosen THEN "WinnerNotChosen"
    ELSE IF ~MintAt(mint).collection.verified THEN "NotVerifiedTicket"
    ELSE IF MintAt(mint).collection.key # CollectionMint THEN "IncorrectTicket"
    ELSE IF StripNul(MintAt(mint).name) # TicketName(token_lottery.winner) THEN "IncorrectTicket"
    ELSE IF lamports[TL] < token_lottery.lottery_pot_amount THEN "Panic"
    ELSE IF lamports[TL] - token_lottery.lottery_pot_amount < RentExempt
         THEN "InsufficientFundsForRent"
    ELSE "Ok"

\* variant: the pot can be claimed before the draw (no WinnerNotChosen test)
ClaimChecksBeforeDraw(payer, mint) ==
    IF ~MintAt(mint).collection.verified THEN "NotVerifiedTicket"
    ELSE IF MintAt(mint).collection.key # CollectionMint THEN "IncorrectTicket"
    ELSE IF StripNul(MintAt(mint).name) # TicketName(token_lottery.winner) THEN "IncorrectTicket"
    ELSE IF ~(TokenAmount(mint, payer) > 0) THEN "IncorrectTicket"
    ELSE IF lamports[TL] < token_lottery.lottery_pot_amount THEN "Panic"
    ELSE IF lamports[TL] - token_lottery.lottery_pot_amount < RentExempt
         THEN "InsufficientFundsForRent"
    ELSE "Ok"

\* variant: the collection's verified flag is not tested
ClaimChecksUnverified(payer, mint) ==
    IF ~token_lottery.winner_chosen THEN "WinnerNotChosen"
    ELSE IF MintAt(mint).collection.key # CollectionMint THEN "IncorrectTicket"
    ELSE IF StripNul(MintAt(mint).name) # TicketName(token_lottery.winner) THEN "IncorrectTicket"
    ELSE IF ~(TokenAmount(mint, payer) > 0) THEN "IncorrectTicket"
    ELSE IF lamports[TL] < token_lottery.lottery_pot_amount THEN "Panic"
    ELSE IF lamports[TL] - token_lottery.lottery_pot_amount < RentExempt
         THEN "InsufficientFundsForRent"
    ELSE "Ok"

\* the checks of process_claim_prize, in its order
ClaimChecksResult(payer, mint) ==
    IF ~token_lottery.winner_chosen THEN "WinnerNotChosen"
    ELSE IF ~MintAt(mint).collection.verified THEN "NotVerifiedTicket"
    ELSE IF MintAt(mint).collection.key # CollectionMint THEN "IncorrectTicket"
    ELSE IF StripNul(MintAt(mint).name) # TicketName(token_lottery.winner) THEN "IncorrectTicket"
    ELSE IF ~(TokenAmount(mint, payer) > 0) THEN "IncorrectTicket"
    ELSE IF lamports[TL] < token_lottery.lottery_pot_amount THEN "Panic"
    ELSE IF lamports[TL] - token_lottery.lottery_pot_amount < RentExempt
         THEN "InsufficientFundsForRent"
    ELSE "Ok"

ClaimPrizeResult(payer, mint, ata) ==
    IF ClaimAccountsResult(payer, mint, ata) # "Ok" THEN ClaimAccountsResult(payer, mint, ata)
    ELSE ClaimChecksResult(payer, mint)

\* variant: the pot is not reset by a claim
AfterClaimKeepingPot(tl) == tl

\* variant: a claim also resets the price
AfterClaimResettingPrice(tl) == [tl EXCEPT !.lottery_pot_amount = 0, !.price = 0]

\* lottery_pot_amount = 0
AfterClaim(tl) == [tl EXCEPT !.lottery_pot_amount = 0]

ClaimPrize(payer, mint, ata) ==
    LET res == ClaimPrizeResult(payer, mint, ata)
        pot == token_lottery.lottery_pot_amount IN
    /\ IF res = "Ok"
       THEN /\ last' = Done("claim_prize", payer, mint, pot)
            /\ lamports' = [lamports EXCEPT ![TL] = @ - pot, ![payer] = @ + pot]
            /\ token_lottery' = AfterClaim(token_lottery)
            /\ first_claim' = IF first_claim < 0 THEN pot ELSE first_claim
            /\ paid_out' = paid_out + pot
       ELSE UNCHANGED <<lamports, token_lottery, first_claim, paid_out, last>>
    /\ UNCHANGED <<slot, created, tickets, oracle>>

\* keys a caller may present as a randomness account, and as a ticket mint
PresentedKeys == RandomnessKeys \cup {DefaultKey}
PresentedMints == 0..(MaxTickets - 1) \cup {ForeignMint}

Next ==
    \/ Tick
    \/ \E p \in Players, s \in StartSlots, e \in EndSlots, pr \in Prices :
          InitializeConfig(p, s, e, pr)
    \/ \E p \in Players : InitializeLottery(p)
    \/ \E p \in Players, cpi \in {"Ok", "IssuanceFailed"} : BuyTicket(p, cpi)
    \/ \E i \in 1..Len(tickets), p \in Players : TransferTicket(i, p)
    \/ \E k \in RandomnessKeys : OracleCommit(k)
    \/ \E k \in RandomnessKeys, v \in RevealedValues : OracleReveal(k, v)
    \/ \E p \in Players, k \in PresentedKeys : CommitWinner(p, k)
    \/ \E p \in Players, k \in PresentedKeys : ChooseWinner(p, k)
    \/ \E p \in Players, m \in PresentedMints, ata \in BOOLEAN : ClaimPrize(p, m, ata)

Spec == Init /\ [][Next]_vars

\* ------------------------------------------------ two randomness accounts
\* The same program with two randomness accounts at the oracle, so that the
\* session can be bound a second time to another commitment. claim_prize and
\* the transfer of tickets are left out here: they neither read nor write
\* randomness_account, the oracle or the slot, and commit_a_winner and
\* choose_a_winner read nothing of what they write.
RecommitKeys == {1, 2}

InitRecommit ==
    /\ slot = 1
    /\ created = {}
    /\ token_lottery = ZeroLottery
    /\ lamports = [a \in Players \cup {TL} |-> IF a = TL THEN 0 ELSE InitialLamports]
    /\ tickets = <<>>
    /\ oracle = [k \in RecommitKeys |-> NoRandomness]
    /\ first_claim = 0 - 1
    /\ paid_out = 0
    /\ last = Idle

RecommitPresentedKeys == RecommitKeys \cup {DefaultKey}

NextRecommit ==
    \/ Tick
    \/ \E p \in Players, s \in StartSlots, e \in EndSlots, pr \in Prices :
          InitializeConfig(p, s, e, pr)
    \/ \E p \in Players : InitializeLottery(p)
    \/ \E p \in Players, cpi \in {"Ok", "IssuanceFailed"} : BuyTicket(p, cpi)
    \/ \E k \in RecommitKeys : OracleCommit(k)
    \/ \E k \in RecommitKeys, v \in RevealedValues : OracleReveal(k, v)
    \/ \E p \in Players, k \in RecommitPresentedKeys : CommitWinner(p, k)
    \/ \E p \in Players, k \in RecommitPresentedKeys : ChooseWinner(p, k)

SpecRecommit == InitRecommit /\ [][NextRecommit]_vars

\* ------------------------------------------------------ retries and time
\* The program under an authority that retries and a clock that never stops.
\* Time is unbounded here: once slot has reached MaxSlot a step of the clock
\* keeps slot and moves every recorded slot (the window, the seed slots) one
\* back instead, down to 0, which keeps every comparison the handlers make
\* between the clock and a recorded slot as it would be with a growing slot.
\* The oracle registers a fresh commitment on the account again whenever the
\* last one has gone stale and the session is not bound to it. claim_prize and the transfer of tickets are
\* left out, as in SpecRecommit.
OneSlotBack(n) == IF n > 0 THEN n - 1 ELSE 0

TickOn ==
    /\ IF slot < MaxSlot
       THEN slot' = slot + 1 /\ UNCHANGED <<token_lottery, oracle>>
       ELSE /\ slot' = slot
            /\ token_lottery' = [token_lottery EXCEPT !.lottery_start = OneSlotBack(@),
                                                      !.lottery_end = OneSlotBack(@)]
            /\ oracle' = [k \in DOMAIN oracle |->
                             [oracle[k] EXCEPT !.seed_slot = OneSlotBack(@)]]
    /\ last' = Idle
    /\ UNCHANGED <<created, lamports, tickets, first_claim, paid_out>>

\* the authority has a fresh commitment registered on an account whose
\* commitment has gone stale before the session was bound to it
OracleCommitAgain(k) ==
    /\ oracle[k].exists /\ token_lottery.randomness_account # k
    /\ oracle[k].seed_slot < slot - 1
    /\ oracle' = [oracle EXCEPT ![k] = [NoRandomness EXCEPT !.exists = TRUE, !.seed_slot = slot]]
    /\ last' = Idle
    /\ UNCHANGED <<slot, created, token_lottery, lamports, tickets, first_claim, paid_out>>

Purchases == \E p \in Players, cpi \in {"Ok", "IssuanceFailed"} : BuyTicket(p, cpi)
Commitments == \E k \in RandomnessKeys : OracleCommit(k) \/ OracleCommitAgain(k)
Reveals == \E k \in RandomnessKeys, v \in RevealedValues : OracleReveal(k, v)
CommitAttempts == \E p \in Players, k \in PresentedKeys : CommitWinner(p, k)
ChooseAttempts == \E p \in Players, k \in PresentedKeys : ChooseWinner(p, k)

NextRetry ==
    \/ TickOn
    \/ \E p \in Players, s \in StartSlots, e \in EndSlots, pr \in Prices :
          InitializeConfig(p, s, e, pr)
    \/ \E p \in Players : InitializeLottery(p)
    \/ Purchases
    \/ Commitments
    \/ Reveals
    \/ CommitAttempts
    \/ ChooseAttempts

\* the clock advances, the oracle registers and reveals, the authority retries:
\* none of them is put off for ever while it could act
RetryFairness ==
    /\ WF_vars(TickOn)
    /\ WF_vars(Commitments)
    /\ WF_vars(Reveals)
    /\ WF_vars(CommitAttempts)
    /\ WF_vars(ChooseAttempts)

SpecRetry == Init /\ [][NextRetry]_vars /\ RetryFairness

\* =================================================================== claims
Configured == TL \in created

\* the oracle's 32-byte value read as one unsigned integer (little-endian)
ValueAsInteger(value) == value[1] + 256 * value[2]

\* C1: once a claim_prize has succeeded, later successful claims move nothing:
\* the lamports paid out in total never exceed what the first claim paid.
C1_SecondClaimExtractsNothing == first_claim >= 0 => paid_out <= first_claim

\* C2: while no claim has succeeded the pot is ticket_num * price, one price per
\* successful purchase; the pot is never negative; only a successful
\* claim_prize lowers it, and it leaves the pot at 0.
C2_PotInvariant ==
    /\ token_lottery.lottery_pot_amount >= 0
    /\ first_claim < 0 =>
          /\ token_lottery.lottery_pot_amount = token_lottery.ticket_num * token_lottery.price
          /\ token_lottery.lottery_pot_amount = Len(tickets) * token_lottery.price

C2_PotStep ==
    token_lottery'.lottery_pot_amount < token_lottery.lottery_pot_amount =>
        last'.op = "claim_prize" /\ token_lottery'.lottery_pot_amount = 0

C2_PotAccounting == [](C2_PotInvariant) /\ [][C2_PotStep]_vars

C2_Witness ==
    /\ last.op = "buy_ticket" /\ first_claim < 0
    /\ token_lottery.ticket_num = 2 /\ token_lottery.lottery_pot_amount = 2 * token_lottery.price

\* C3: when the winner has just been chosen, the commitment the session is bound
\* to was registered at lottery_end or one slot before it.
C3_CommitmentMadeAtClose ==
    last.op = "choose_a_winner" =>
        oracle[token_lottery.randomness_account].seed_slot
            \in {token_lottery.lottery_end - 1, token_lottery.lottery_end}

\* C4: a step that is a successful claim_prize is taken by a signer who holds, in
\* the state it is taken in, the token of the mint of seeds [winner], issued by
\* buy_ticket, verified for this collection and named NAME + winner, and it moves
\* the pot to that signer; in every state a claim that presents another mint, or
\* whose signer holds no token of the winning mint, is refused.
C4_ClaimStep ==
    last'.op = "claim_prize" =>
        LET w == token_lottery.winner
            p == last'.payer IN
        /\ token_lottery.winner_chosen
        /\ last'.key = w
        /\ \E i \in 1..Len(tickets) : tickets[i].seed = w /\ i = w + 1
        /\ TokenAmount(w, p) > 0
        /\ MintAt(w).collection.verified /\ MintAt(w).collection.key = CollectionMint
        /\ StripNul(MintAt(w).name) = TicketName(w)
        /\ last'.amount = token_lottery.lottery_pot_amount
        /\ lamports'[p] = lamports[p] + token_lottery.lottery_pot_amount
        /\ lamports'[TL] = lamports[TL] - token_lottery.lottery_pot_amount

C4_Refusals ==
    \A p \in Players, m \in PresentedMints, ata \in BOOLEAN :
        (m # token_lottery.winner \/ m \notin MintKeys \/ TokenAmount(m, p) = 0)
            => ClaimPrizeResult(p, m, ata) # "Ok"

C4_OnlyTheHolderIsPaid ==
    /\ [][C4_ClaimStep]_vars
    /\ [](C4_Refusals)
    /\ [][lamports'[TL] < lamports[TL] => last'.op = "claim_prize"]_vars

\* the winning ticket changed hands after the draw and its new holder was paid
C4_Witness ==
    /\ last.op = "claim_prize" /\ last.amount > 0
    /\ MintAt(token_lottery.winner).holder = last.payer
    /\ lamports[last.payer] > InitialLamports

\* C5: winner_chosen, once true, stays true and winner keeps its value; only
\* choose_a_winner sets them after initialize_config; a choose_a_winner on a
\* session with a winner is refused, with WinnerChosen when it reaches that test.
C5_WinnerStep ==
    /\ token_lottery.winner_chosen =>
          token_lottery'.winner_chosen /\ token_lottery'.winner = token_lottery.winner
    /\ (Configured /\ (token_lottery'.winner_chosen # token_lottery.winner_chosen
                        \/ token_lottery'.winner # token_lottery.winner))
          => last'.op = "choose_a_winner" /\ ~token_lottery.winner_chosen

C5_NoSecondDraw ==
    token_lottery.winner_chosen =>
        \A p \in Players, k \in PresentedKeys :
            /\ ChooseWinnerResult(p, k) # "Ok"
            /\ (k = token_lottery.randomness_account /\ p = token_lottery.authority
                  /\ slot >= token_lottery.lottery_end)
                  => ChooseWinnerResult(p, k) = "WinnerChosen"

C5_WinnerChosenOnce == [][C5_WinnerStep]_vars /\ [](C5_NoSecondDraw)

\* a ticket was sold after the draw, and a second draw is refused with WinnerChosen
C5_Witness ==
    /\ token_lottery.winner_chosen /\ last.op = "buy_ticket"
    /\ ChooseWinnerResult(token_lottery.authority, token_lottery.randomness_account)
          = "WinnerChosen"

\* C6: whenever winner_chosen holds, 0 <= winner < ticket_num.
C6_WinnerInRange ==
    token_lottery.winner_chosen =>
        0 <= token_lottery.winner /\ token_lottery.winner < token_lottery.ticket_num

\* a ticket was sold after a draw that chose the last ticket sold before it
C6_Witness ==
    /\ token_lottery.winner_chosen /\ last.op = "buy_ticket"
    /\ token_lottery.winner = token_lottery.ticket_num - 2

\* C7: a successful choose_a_winner leaves winner = revealed value mod ticket_num,
\* the revealed value of the oracle read as an unsigned integer.
C7_WinnerIsValueModCount ==
    last.op = "choose_a_winner" =>
        token_lottery.winner
            = ValueAsInteger(oracle[last.key].value) % token_lottery.ticket_num

\* C8: ticket_num equals the number of successful purchases, the k-th ticket
\* issued has the seed k - 1, and ticket_num never decreases and grows by exactly
\* one with every successful purchase and with nothing else.
C8_Sequence ==
    /\ token_lottery.ticket_num = Len(tickets)
    /\ \A k \in 1..Len(tickets) : tickets[k].seed = k - 1

C8_CountStep ==
    /\ token_lottery'.ticket_num >= token_lottery.ticket_num
    /\ last'.op = "buy_ticket" <=> Len(tickets') = Len(tickets) + 1
    /\ last'.op = "buy_ticket" =>
          /\ token_lottery'.ticket_num = token_lottery.ticket_num + 1
          /\ last'.key = token_lottery.ticket_num
    /\ last'.op # "buy_ticket" => token_lottery'.ticket_num = token_lottery.ticket_num

C8_TicketNumbering == [](C8_Sequence) /\ [][C8_CountStep]_vars

C8_Witness ==
    /\ last.op = "buy_ticket" /\ last.key = 2
    /\ Len(tickets) = 3 /\ {tickets[k].seed : k \in 1..3} = {0, 1, 2}

\* C9: with the accounts in place, buy_ticket is refused with LotteryNotOpen
\* exactly when the slot is below lottery_start or above lottery_end, and inside
\* the window (both ends included) it succeeds whenever the payer can pay the
\* price and the issuance calls succeed; a ticket is sold, the payer debited or
\* the pot raised only by a step taken inside the window.
C9_Window ==
    (Configured /\ CollectionMint \in created) =>
        \A p \in Players :
            /\ BuyTicketResult(p, "Ok") = "LotteryNotOpen"
                  <=> (slot < token_lottery.lottery_start \/ slot > token_lottery.lottery_end)
            /\ (slot >= token_lottery.lottery_start /\ slot <= token_lottery.lottery_end
                  /\ lamports[p] >= token_lottery.price)
                  => BuyTicketResult(p, "Ok") = "Ok"

C9_SaleStep ==
    (Configured /\ (token_lottery'.ticket_num # token_lottery.ticket_num
                     \/ token_lottery'.lottery_pot_amount > token_lottery.lottery_pot_amount
                     \/ \E p \in Players : lamports'[p] < lamports[p]))
        => (slot >= token_lottery.lottery_start /\ slot <= token_lottery.lottery_end)

C9_InclusiveWindow == [](C9_Window) /\ [][C9_SaleStep]_vars

\* a ticket was sold at the closing slot of a window of more than one slot
C9_Witness ==
    /\ last.op = "buy_ticket" /\ slot = token_lottery.lottery_end
    /\ token_lottery.lottery_start < token_lottery.lottery_end

\* C10 as stated: on a session whose randomness_account is still unset, a
\* choose_a_winner by the authority after lottery_end is refused with
\* IncorrectRandomnessAccount, whatever key it presents.
C10_UnsetIsIncorrectAccount ==
    (Configured /\ token_lottery.randomness_account = DefaultKey
       /\ slot >= token_lottery.lottery_end)
        => \A k \in PresentedKeys :
              ChooseWinnerResult(token_lottery.authority, k) = "IncorrectRandomnessAccount"

\* C10 as amended: winner_chosen becomes true only at a slot >= lottery_end and
\* with the key a commit_a_winner stored; randomness_account is written by
\* commit_a_winner alone; a choose_a_winner before lottery_end is refused
\* (LotteryNotCompleted when it reaches that test), one with a key other than
\* randomness_account is refused with IncorrectRandomnessAccount, and one on an
\* unset session is refused: with IncorrectRandomnessAccount unless it presents
\* the default key, which passes the key test and fails at a later one.
C10_DrawStep ==
    /\ (~token_lottery.winner_chosen /\ token_lottery'.winner_chosen) =>
          /\ slot >= token_lottery.lottery_end
          /\ token_lottery.randomness_account # DefaultKey
          /\ last'.key = token_lottery.randomness_account
          /\ oracle[token_lottery.randomness_account].exists
    /\ (Configured /\ token_lottery'.randomness_account # token_lottery.randomness_account) =>
          last'.op = "commit_a_winner" /\ last'.key = token_lottery'.randomness_account

C10_Refusals ==
    Configured =>
        \A p \in Players, k \in PresentedKeys :
            LET res == ChooseWinnerResult(p, k) IN
            /\ k # token_lottery.randomness_account => res = "IncorrectRandomnessAccount"
            /\ slot < token_lottery.lottery_end => res # "Ok"
            /\ (slot < token_lottery.lottery_end /\ k = token_lottery.randomness_account
                  /\ p = token_lottery.authority) => res = "LotteryNotCompleted"
            /\ token_lottery.randomness_account = DefaultKey =>
                  /\ res # "Ok"
                  /\ k # DefaultKey => res = "IncorrectRandomnessAccount"
                  /\ k = DefaultKey =>
                        res \in {"NotAuthorized", "LotteryNotCompleted", "Panic"}

C10_DrawAfterCloseAndCommit == [][C10_DrawStep]_vars /\ [](C10_Refusals)

\* the winner has just been chosen, at the closing slot
C10_Witness ==
    /\ last.op = "choose_a_winner" /\ slot = token_lottery.lottery_end
    /\ last.key = token_lottery.randomness_account

\* C11 as stated: commit_a_winner and choose_a_winner by a signer other than the
\* authority are refused with NotAuthorized, in every state and for every key.
C11_AlwaysNotAuthorized ==
    Configured =>
        \A p \in Players \ {token_lottery.authority}, k \in PresentedKeys :
            /\ CommitWinnerResult(p, k) = "NotAuthorized"
            /\ ChooseWinnerResult(p, k) = "NotAuthorized"

\* C11 as amended: a signer other than the authority is refused by both
\* instructions in every state and for every key, by commit_a_winner with
\* NotAuthorized, by choose_a_winner with NotAuthorized when the key is the stored
\* randomness_account and with IncorrectRandomnessAccount otherwise; every step
\* that writes randomness_account, winner or winner_chosen of a configured
\* session is a commit_a_winner or choose_a_winner signed by the authority.
C11_Refusals ==
    Configured =>
        \A p \in Players \ {token_lottery.authority}, k \in PresentedKeys :
            /\ CommitWinnerResult(p, k) = "NotAuthorized"
            /\ ChooseWinnerResult(p, k) =
                  IF k = token_lottery.randomness_account THEN "NotAuthorized"
                  ELSE "IncorrectRandomnessAccount"

C11_SettleStep ==
    /\ last'.op \in {"commit_a_winner", "choose_a_winner"} =>
          last'.payer = token_lottery.authority
    /\ (Configured /\ (token_lottery'.randomness_account # token_lottery.randomness_account
                        \/ token_lottery'.winner # token_lottery.winner
                        \/ token_lottery'.winner_chosen # token_lottery.winner_chosen))
          => last'.op \in {"commit_a_winner", "choose_a_winner"}

C11_OnlyAuthoritySettles == [](C11_Refusals) /\ [][C11_SettleStep]_vars

\* everything but the signer is in order for the draw: the other player presents
\* the stored, resolved commitment after the sale, with tickets sold
C11_Witness ==
    /\ Configured /\ ~token_lottery.winner_chosen /\ token_lottery.ticket_num > 0
    /\ slot >= token_lottery.lottery_end
    /\ Parses(token_lottery.randomness_account) /\ Resolved(token_lottery.randomness_account)
    /\ \E p \in Players \ {token_lottery.authority} :
          ChooseWinnerResult(p, token_lottery.randomness_account) = "NotAuthorized"

\* C12: commit_a_winner by the authority with an existing randomness account
\* succeeds exactly when its seed_slot is the current slot minus one and is
\* refused with RandomnessAlreadyRevealed otherwise (seed_slot at the current
\* slot, or two or more slots back); a successful commit_a_winner leaves
\* randomness_account = the presented key and no other field changed.
C12_Freshness ==
    Configured =>
        \A k \in RandomnessKeys :
            Parses(k) =>
                CommitWinnerResult(token_lottery.authority, k) =
                    IF oracle[k].seed_slot = slot - 1 THEN "Ok" ELSE "RandomnessAlreadyRevealed"

C12_CommitStep ==
    last'.op = "commit_a_winner" =>
        /\ oracle[last'.key].exists /\ oracle[last'.key].seed_slot = slot - 1
        /\ token_lottery' = [token_lottery EXCEPT !.randomness_account = last'.key]
        /\ lamports' = lamports

C12_CommitExactlyOneSlotLater == [](C12_Freshness) /\ [][C12_CommitStep]_vars

\* the session has just been bound to a commitment of the slot before
C12_Witness ==
    /\ last.op = "commit_a_winner" /\ token_lottery.randomness_account = last.key
    /\ oracle[last.key].seed_slot = slot - 1

\* C13: when a session bound to r1 is bound again by a successful
\* commit_a_winner with another key r2 before any winner is chosen, it is bound
\* to r2 only: in the state reached choose_a_winner with r1 is refused with
\* IncorrectRandomnessAccount and choose_a_winner with r2 passes the key test;
\* in every state exactly the stored key passes that test.
C13_RebindStep ==
    \A r1, r2 \in RecommitKeys :
        (/\ last'.op = "commit_a_winner" /\ last'.key = r2
         /\ token_lottery.randomness_account = r1 /\ r1 # r2
         /\ ~token_lottery.winner_chosen)
            => /\ token_lottery'.randomness_account = r2
               /\ \A p \in Players :
                     /\ ChooseWinnerResult(p, r1)' = "IncorrectRandomnessAccount"
                     /\ ChooseWinnerResult(p, r2)' # "IncorrectRandomnessAccount"

C13_KeyTest ==
    Configured =>
        \A p \in Players, k \in RecommitPresentedKeys :
            ChooseWinnerResult(p, k) = "IncorrectRandomnessAccount"
                <=> k # token_lottery.randomness_account

C13_BoundToLatestOnly == [][C13_RebindStep]_vars /\ [](C13_KeyTest)

\* the session is bound to the first account, no winner is chosen, and a
\* commit_a_winner with the second account succeeds here
C13_Witness ==
    /\ Configured /\ ~token_lottery.winner_chosen
    /\ token_lottery.randomness_account = 1
    /\ CommitWinnerResult(token_lottery.authority, 2) = "Ok"
    /\ ChooseWinnerResult(token_lottery.authority, 1) # "IncorrectRandomnessAccount"

\* C14: while ticket_num = 0 every choose_a_winner is refused and no step sets
\* winner_chosen or changes winner, even when the key, the signer, the slot and
\* the oracle are all in order; so winner_chosen implies ticket_num >= 1.
C14_Refused ==
    (Configured /\ token_lottery.ticket_num = 0) =>
        /\ ~token_lottery.winner_chosen
        /\ \A p \in Players, k \in PresentedKeys : ChooseWinnerResult(p, k) # "Ok"

C14_NoTicketsStep ==
    token_lottery.ticket_num = 0 =>
        /\ token_lottery'.winner_chosen = token_lottery.winner_chosen
        /\ token_lottery'.winner = token_lottery.winner
        /\ last'.op # "choose_a_winner"

C14_NoWinnerWithoutTickets ==
    /\ [](token_lottery.winner_chosen => token_lottery.ticket_num >= 1)
    /\ [](C14_Refused)
    /\ [][C14_NoTicketsStep]_vars

\* no ticket was sold and everything else is in order for the draw: the
\* authority presents the stored, resolved commitment after the sale
C14_Witness ==
    /\ Configured /\ token_lottery.ticket_num = 0 /\ ~token_lottery.winner_chosen
    /\ slot >= token_lottery.lottery_end
    /\ Parses(token_lottery.randomness_account) /\ Resolved(token_lottery.randomness_account)
    /\ ChooseWinnerResult(token_lottery.authority, token_lottery.randomness_account) = "Panic"

\* C15: while the oracle has not revealed the value of the committed account,
\* choose_a_winner is refused, with RandomnessNotResolved when the key, the
\* signer, the slot and winner_chosen are in order, and winner_chosen stays as it
\* is; once the oracle reveals the value, the same call with the same key
\* succeeds (tickets having been sold).
C15_Unresolved ==
    Configured =>
        \A p \in Players, k \in RandomnessKeys :
            (oracle[k].exists /\ ~oracle[k].revealed) =>
                /\ ChooseWinnerResult(p, k) # "Ok"
                /\ (k = token_lottery.randomness_account /\ p = token_lottery.authority
                      /\ slot >= token_lottery.lottery_end /\ ~token_lottery.winner_chosen)
                      => ChooseWinnerResult(p, k) = "RandomnessNotResolved"

C15_RetryStep ==
    \A p \in Players, k \in RandomnessKeys :
        (/\ ChooseWinnerResult(p, k) = "RandomnessNotResolved"
         /\ token_lottery.ticket_num > 0
         /\ oracle'[k].revealed)
            => /\ token_lottery' = token_lottery
               /\ ChooseWinnerResult(p, k)' = "Ok"

C15_UnresolvedIsRetried == [](C15_Unresolved) /\ [][C15_RetryStep]_vars

\* tickets are sold, the sale is over, and the authority's draw is refused only
\* because the oracle has not revealed the value yet
C15_Witness ==
    /\ Configured /\ token_lottery.ticket_num > 0
    /\ ChooseWinnerResult(token_lottery.authority, token_lottery.randomness_account)
          = "RandomnessNotResolved"

\* C16 as stated: while winner_chosen is false, claim_prize by the holder of any
\* issued ticket, presenting that ticket, is refused with WinnerNotChosen.
C16_AlwaysWinnerNotChosen ==
    (Configured /\ ~token_lottery.winner_chosen) =>
        \A i \in 1..Len(tickets) :
            ClaimPrizeResult(tickets[i].holder, tickets[i].seed, TRUE) = "WinnerNotChosen"

\* C16 as amended: while winner_chosen is false every claim_prize is refused and
\* moves nothing, whatever mint is presented and whoever signs; the refusal is
\* WinnerNotChosen whenever the accounts pass validation, which they do for the
\* holder of ticket 0 (winner is 0 before the draw), and a validation error
\* (the mint is not the one of seeds [winner], or an account is missing) otherwise.
C16_Refusals ==
    (Configured /\ ~token_lottery.winner_chosen) =>
        /\ token_lottery.winner = 0
        /\ \A p \in Players, m \in PresentedMints, ata \in BOOLEAN :
              /\ ClaimPrizeResult(p, m, ata) # "Ok"
              /\ ClaimAccountsResult(p, m, ata) = "Ok"
                    => ClaimPrizeResult(p, m, ata) = "WinnerNotChosen"
              /\ ClaimAccountsResult(p, m, ata) # "Ok"
                    => ClaimPrizeResult(p, m, ata) \in {"AccountNotInitialized", "ConstraintSeeds"}
        /\ \A i \in 1..Len(tickets) :
              tickets[i].seed = 0 =>
                  ClaimPrizeResult(tickets[i].holder, 0, TRUE) = "WinnerNotChosen"

C16_BeforeDrawStep ==
    ~token_lottery'.winner_chosen =>
        /\ last'.op # "claim_prize"
        /\ lamports'[TL] >= lamports[TL]
        /\ token_lottery'.lottery_pot_amount >= token_lottery.lottery_pot_amount

C16_NoClaimBeforeDraw == [](C16_Refusals) /\ [][C16_BeforeDrawStep]_vars

\* before the draw, with lamports in the pot, the holder of ticket 0 is refused
\* with WinnerNotChosen
C16_Witness ==
    /\ Configured /\ ~token_lottery.winner_chosen /\ token_lottery.lottery_pot_amount > 0
    /\ Len(tickets) > 0
    /\ ClaimPrizeResult(tickets[1].holder, 0, TRUE) = "WinnerNotChosen"

\* C17 as stated: after the draw, claim_prize presented with a mint whose
\* metadata has collection.verified = false is refused with NotVerifiedTicket,
\* whether or not the mint is the winning one and whoever signs.
C17_AlwaysNotVerified ==
    (Configured /\ CollectionMint \in created /\ token_lottery.winner_chosen) =>
        \A p \in Players, m \in MintKeys :
            ~MintAt(m).collection.verified =>
                ClaimPrizeResult(p, m, TRUE) = "NotVerifiedTicket"

\* C17 as amended: claim_prize presented with a mint whose metadata has
\* collection.verified = false never succeeds and leaves the pot as it is; once a
\* winner is chosen the handler's checks answer NotVerifiedTicket for it, before
\* the collection key, the name and the balance are looked at, whoever signs;
\* a mint that is not the one of seeds [winner] is refused before the handler,
\* by account validation. Every successful claim_prize presents a verified ticket.
C17_Refusals ==
    \A p \in Players, m \in MintKeys, ata \in BOOLEAN :
        ~MintAt(m).collection.verified =>
            /\ ClaimPrizeResult(p, m, ata) # "Ok"
            /\ token_lottery.winner_chosen => ClaimChecksResult(p, m) = "NotVerifiedTicket"
            /\ (Configured /\ CollectionMint \in created /\ m # token_lottery.winner)
                  => ClaimPrizeResult(p, m, ata) = "ConstraintSeeds"

C17_ClaimStep ==
    last'.op = "claim_prize" => MintAt(last'.key).collection.verified

C17_UnverifiedNeverPaid == [](C17_Refusals) /\ [][C17_ClaimStep]_vars

\* after the draw of ticket 0, with lamports in the pot: the unverified ticket
\* carries the winning name and its holder signs, the handler's checks answer
\* NotVerifiedTicket and account validation refuses the mint before them
C17_Witness ==
    /\ token_lottery.winner_chosen /\ token_lottery.winner = 0
    /\ token_lottery.lottery_pot_amount > 0
    /\ StripNul(ForeignTicket.name) = TicketName(token_lottery.winner)
    /\ ClaimChecksResult(ForeignTicket.holder, ForeignMint) = "NotVerifiedTicket"
    /\ ClaimPrizeResult(ForeignTicket.holder, ForeignMint, TRUE) = "ConstraintSeeds"

\* C18: a successful claim_prize moves exactly lottery_pot_amount from the
\* lottery account to the signer, sets lottery_pot_amount to 0 and changes no
\* other field of the lottery and no other balance; right after it the same
\* holder's claim passes every check again and would move the pot of 0.
C18_ClaimStep ==
    last'.op = "claim_prize" =>
        LET pot == token_lottery.lottery_pot_amount
            p == last'.payer IN
        /\ last'.amount = pot
        /\ lamports' = [lamports EXCEPT ![TL] = @ - pot, ![p] = @ + pot]
        /\ token_lottery' = [token_lottery EXCEPT !.lottery_pot_amount = 0]
        /\ tickets' = tickets

C18_Repeat ==
    last.op = "claim_prize" =>
        /\ token_lottery.lottery_pot_amount = 0
        /\ ClaimPrizeResult(last.payer, last.key, TRUE) = "Ok"

C18_ClaimMovesThePot == [][C18_ClaimStep]_vars /\ [](C18_Repeat)

\* a first claim moved a pot of two tickets and the claim repeated after it moved 0
C18_Witness ==
    /\ last.op = "claim_prize" /\ last.amount = 0
    /\ first_claim = 2 * token_lottery.price /\ paid_out = first_claim
    /\ lamports[TL] = RentExempt

\* C19: every step that changes a field of the lottery, a balance or the tickets
\* issued is the complete effect of one buy_ticket, commit_a_winner,
\* choose_a_winner or claim_prize whose checks all passed in the state it was
\* taken in: no step carries a part of an instruction's effect, so a call that
\* fails a check, or in which a called program fails, leaves everything as
\* before; in particular the pot and a buyer's balance change in a purchase only
\* together with the issue of the ticket.
C19_ChangeStep ==
    (Configured /\ (token_lottery' # token_lottery \/ lamports' # lamports
                     \/ Len(tickets') # Len(tickets))) =>
        \/ /\ last'.op = "buy_ticket" /\ BuyTicketResult(last'.payer, "Ok") = "Ok"
           /\ last'.key = token_lottery.ticket_num
           /\ Len(tickets') = Len(tickets) + 1
           /\ token_lottery' = AfterIssue(AfterPayment(token_lottery))
           /\ lamports' = [lamports EXCEPT ![last'.payer] = @ - token_lottery.price,
                                           ![TL] = @ + token_lottery.price]
        \/ /\ last'.op = "commit_a_winner"
           /\ CommitWinnerResult(last'.payer, last'.key) = "Ok"
           /\ token_lottery' = AfterCommit(token_lottery, last'.key)
           /\ lamports' = lamports /\ tickets' = tickets
        \/ /\ last'.op = "choose_a_winner"
           /\ ChooseWinnerResult(last'.payer, last'.key) = "Ok"
           /\ token_lottery' = AfterChoice(token_lottery, oracle[last'.key].value)
           /\ lamports' = lamports /\ tickets' = tickets
        \/ /\ last'.op = "claim_prize"
           /\ \E ata \in BOOLEAN : ClaimPrizeResult(last'.payer, last'.key, ata) = "Ok"
           /\ token_lottery' = AfterClaim(token_lottery)
           /\ tickets' = tickets

C19_AllOrNothing == [][C19_ChangeStep]_vars

\* inside the sale window, with lamports in the pot, a buyer who can pay the
\* price has the purchase fail in the issuance of the ticket
C19_Witness ==
    /\ Configured /\ token_lottery.lottery_pot_amount > 0
    /\ \E p \in Players :
          /\ lamports[p] >= token_lottery.price
          /\ BuyTicketResult(p, "IssuanceFailed") = "IssuanceFailed"
          /\ BuyTicketResult(p, "Ok") = "Ok"

\* C20: initialize_config succeeds only when the token_lottery account does not
\* exist yet and leaves ticket_num = 0, lottery_pot_amount = 0, winner = 0,
\* randomness_account unset, winner_chosen = false and authority = the signer;
\* on an existing session it is refused for every signer and every argument, so
\* no later step resets a counter, the winner flag, the window, the price or the
\* authority.
C20_ConfigureStep ==
    last'.op = "initialize_config" =>
        /\ ~Configured /\ Configured'
        /\ token_lottery'.ticket_num = 0 /\ token_lottery'.lottery_pot_amount = 0
        /\ token_lottery'.winner = 0 /\ ~token_lottery'.winner_chosen
        /\ token_lottery'.randomness_account = DefaultKey
        /\ token_lottery'.authority = last'.payer
        /\ token_lottery'.lottery_start \in StartSlots /\ token_lottery'.lottery_end \in EndSlots
        /\ token_lottery'.price \in Prices

C20_ConfiguredStep ==
    Configured =>
        /\ Configured' /\ last'.op # "initialize_config"
        /\ token_lottery'.authority = token_lottery.authority
        /\ token_lottery'.lottery_start = token_lottery.lottery_start
        /\ token_lottery'.lottery_end = token_lottery.lottery_end
        /\ token_lottery'.price = token_lottery.price
        /\ token_lottery'.ticket_num >= token_lottery.ticket_num
        /\ token_lottery.winner_chosen => token_lottery'.winner_chosen
        /\ token_lottery.randomness_account # DefaultKey
              => token_lottery'.randomness_account # DefaultKey

C20_Refused ==
    Configured => \A p \in Players : InitializeConfigResult(p) = "AccountAlreadyInUse"

C20_ConfigureOnce ==
    [][C20_ConfigureStep]_vars /\ [][C20_ConfiguredStep]_vars /\ [](C20_Refused)

\* the session has just been configured by the signer
C20_Witness ==
    /\ last.op = "initialize_config" /\ Configured
    /\ token_lottery.authority = last.payer
    /\ token_lottery = ConfiguredLottery(last.payer, token_lottery.lottery_start,
                                         token_lottery.lottery_end, token_lottery.price)

C22_NoPurchaseAfterDraw ==
    token_lottery.winner_chosen => last.op # "buy_ticket"

\* C23: in a state with winner_chosen = true no step changes
\* randomness_account: commit_a_winner rebinds the session only before the draw.
C23_BindingFrozenAfterDraw ==
    [][token_lottery.winner_chosen =>
          token_lottery'.randomness_account = token_lottery.randomness_account]_vars

\* C24: funds are conserved and the counter matches the escrow. In every state
\* the balance of the token_lottery account above the rent it was created with
\* is lottery_pot_amount; what the buyers have paid, one price per ticket
\* issued, is the pot plus what successful claims have paid out; no lamport
\* enters or leaves the system of players and escrow; and a claim_prize never
\* leaves the escrow below its rent.
C24_Rent == IF Configured THEN RentExempt ELSE 0

C24_Balances ==
    /\ lamports[TL] = C24_Rent + token_lottery.lottery_pot_amount
    /\ Len(tickets) * token_lottery.price = token_lottery.lottery_pot_amount + paid_out
    /\ token_lottery.ticket_num * token_lottery.price = token_lottery.lottery_pot_amount + paid_out
    /\ lamports["alice"] + lamports["bob"] + lamports[TL] = 2 * InitialLamports
    /\ lamports[TL] >= C24_Rent

C24_ClaimStep ==
    last'.op = "claim_prize" =>
        /\ lamports'[TL] = RentExempt
        /\ lamports[TL] - lamports'[TL] = last'.amount
        /\ paid_out' = paid_out + last'.amount

C24_FundsConserved == [](C24_Balances) /\ [][C24_ClaimStep]_vars

\* a ticket bought after a claim has paid a pot out: the pot holds one price again
C24_Witness ==
    /\ last.op = "buy_ticket" /\ paid_out = token_lottery.price
    /\ token_lottery.ticket_num = 2
    /\ token_lottery.lottery_pot_amount = token_lottery.price
    /\ lamports[TL] = RentExempt + token_lottery.price

\* C25: the configuration is immutable after initialize_config. A step changes
\* authority, lottery_start, lottery_end or price only if it is the successful
\* initialize_config of a lottery not yet configured, which stores its signer as
\* authority and the start, end and price it was given; buy_ticket,
\* commit_a_winner, choose_a_winner and claim_prize leave the four fields as they
\* are; and every successful commit_a_winner and choose_a_winner is signed by
\* that one authority.
C25_Configuration(tl) == <<tl.authority, tl.lottery_start, tl.lottery_end, tl.price>>

C25_WriteStep ==
    C25_Configuration(token_lottery') # C25_Configuration(token_lottery) =>
        /\ ~Configured /\ Configured'
        /\ last'.op = "initialize_config"
        /\ token_lottery'.authority = last'.payer
        /\ token_lottery'.lottery_start \in StartSlots
        /\ token_lottery'.lottery_end \in EndSlots
        /\ token_lottery'.price \in Prices

C25_FrameStep ==
    last'.op \in {"buy_ticket", "commit_a_winner", "choose_a_winner", "claim_prize"} =>
        C25_Configuration(token_lottery') = C25_Configuration(token_lottery)

C25_OneAuthority ==
    /\ ~Configured => C25_Configuration(token_lottery) = C25_Configuration(ZeroLottery)
    /\ last.op \in {"commit_a_winner", "choose_a_winner"} => last.payer = token_lottery.authority

C25_ConfigurationImmutable ==
    [][C25_WriteStep /\ C25_FrameStep]_vars /\ [](C25_OneAuthority)

\* the winner, who is not the authority, has claimed the prize of a lottery that
\* still has the configuration alice gave it
C25_Witness ==
    /\ last.op = "claim_prize" /\ last.payer = "bob" /\ last.amount > 0
    /\ C25_Configuration(token_lottery) = <<"alice", 2, 3, 2>>
====
